---------------------------- MODULE Spec2Model ----------------------------
(***************************************************************************)
(* Model of the cxml streaming parser front end:                           *)
(*   src/src/parser/Parser.ts      (Parser: _transform, parseCodeBuffer,    *)
(*                                  storeSlice/buildSlice/getSlice, resolve)*)
(*   src/src/parser/TokenChunk.ts  (TokenChunk.allocate / free)             *)
(*                                                                         *)
(* Two Parser instances run in one process and share the static free list  *)
(* of TokenChunk.  Both are fed the same document: parser 1 in one write,  *)
(* parser 2 in two writes split at byte offset `split`.  The native        *)
(* scanner is not part of the sources; it is modelled as a grammar-driven  *)
(* producer of op-codes that reports the same event to both parsers, with  *)
(* offsets relative to each parser's current input buffer.  The model's    *)
(* document holds only the bytes the decoder can read (text, values,       *)
(* comments, unknown names); markup bytes are elided, so an offset is a    *)
(* position among those bytes.                                             *)
(***************************************************************************)
EXTENDS Integers, Sequences, FiniteSets, TLC

\* ------------------------------------------------------------------ bounds

\* Longest document (in readable bytes) of the error specification.
MaxDocLen == 2
\* Longest document of the slice specification.
MaxTextLen == 2
\* Op-codes the scanner writes for one document, per specification.
MaxCodes == 8
MaxSliceCodes == 6
MaxErrorCodes == 4
MaxSyncCodes == 4
MaxPartialCodes == 7
\* Chunks the pool specification creates.
MaxChunks == 4

\* --------------------------------------------------------------- constants

Parsers == {1, 2}

\* JS null / undefined for references held as numbers (ids start at 1).
Nil == 0

\* Input units.  "e1","e2" are the lead and continuation byte of one two-byte
\* character; "constructor" stands for the bytes of that name, never split.
CR == "CR"
LF == "LF"
TextAlphabet == {"a", CR, LF}

\* Listener installed for the stream's 'error' event.
Listeners == {"none", "returns", "throws"}

\* Predeclared symbol tables of ParserConfig (ids are list indexes).
ElementNames == << <<"x">> >>
AttributeNames == << <<"k">> >>
\* The second prefix is the empty one, which a default namespace definition
\* (xmlns="...") binds.
PrefixNames == << <<"p">>, <<>> >>
\* Predeclared namespaces: id 1 has a default prefix, id 2 has none yet.
NamespaceInit ==
  << [uri |-> <<"u1">>, defaultPrefix |-> <<"p">>],
     [uri |-> <<"u2">>, defaultPrefix |-> <<>>] >>

\* Own property names every JS object literal inherits from Object.prototype.
ObjectPrototypeKeys == { <<"constructor">> }

\* ----------------------------------------------------------------- helpers

Max(a, b) == IF a >= b THEN a ELSE b
Min(a, b) == IF a <= b THEN a ELSE b

\* Slots of the per-tag side arrays (prefixBuffer, namespaceBuffer,
\* unknownOffsetList).  A slot never written reads as undefined, which the
\* code's comparisons (==, ||, if) do not tell from null: both are Nil.
Slots == 0..MaxCodes
EmptySlots == [i \in Slots |-> Nil]

RECURSIVE Flatten(_)
Flatten(parts) ==
  IF parts = <<>> THEN <<>> ELSE Head(parts) \o Flatten(Tail(parts))

\* All sequences over alphabet A of length at most n.
SeqsUpTo(A, n) == UNION { [1..k -> A] : k \in 0..n }

\* ------------------------------------------------------------------ tokens

\* A token object: kind, name, namespace id (Nil: Namespace.unknown, the "no
\* namespace" sentinel) and, for an object made by `new`, its identity.
Tok(kind, name, ns, obj) == [kind |-> kind, name |-> name, ns |-> ns, obj |-> obj]

Undefined == Tok("undefined", <<>>, Nil, Nil)
\* Object.prototype.constructor, what `{}`["constructor"] evaluates to.
ObjectFunction == Tok("function", <<"constructor">>, Nil, Nil)
\* SpecialToken.comment
CommentToken == Tok("comment", <<>>, Nil, Nil)
\* A decoded string pushed as a token (text, attribute value, comment body).
StringValue(str) == Tok("text", str, Nil, Nil)

\* elementList[code].open / .close, attributeList[code].string
ElementOpen(code) == Tok("open", ElementNames[code], Nil, Nil)
ElementClose(code) == Tok("close", ElementNames[code], Nil, Nil)
AttributeString(code) == Tok("string", AttributeNames[code], Nil, Nil)

\* token instanceof MemberToken
IsMemberToken(t) == t.kind \in {"open", "close", "emitted", "string"}

\* MemberToken.resolve(ns): the same name bound to namespace ns.
ResolveToken(t, ns) == Tok(t.kind, t.name, ns, Nil)

\* latestElement.emitted / latestElement.close; a property of something that
\* is not an OpenToken reads as undefined.
EmittedOf(t) == IF t.kind = "open" THEN Tok("emitted", t.name, t.ns, t.obj) ELSE Undefined
CloseOf(t) == IF t.kind = "open" THEN Tok("close", t.name, t.ns, t.obj) ELSE Undefined

\* A token without its object identity: what two parsers' outputs are
\* compared by.
Plain(t) == [kind |-> t.kind, name |-> t.name, ns |-> t.ns]
PlainSeq(ts) == [i \in 1..Len(ts) |-> Plain(ts[i])]

\* ------------------------------------------------------------- byte ranges

\* decodeArray: UTF-8 decoding.  A lead byte followed by its continuation
\* byte is one character; a stray lead or continuation byte decodes to the
\* replacement character.
RECURSIVE DecodeArray(_)
DecodeArray(bytes) ==
  IF bytes = <<>> THEN <<>>
  ELSE IF bytes[1] = "e1" /\ Len(bytes) >= 2 /\ bytes[2] = "e2"
       THEN <<"E">> \o DecodeArray(SubSeq(bytes, 3, Len(bytes)))
  ELSE IF bytes[1] \in {"e1", "e2"}
       THEN <<"?">> \o DecodeArray(Tail(bytes))
  ELSE <<bytes[1]>> \o DecodeArray(Tail(bytes))

\* concatArray(list, totalLen): the parts copied in order into an array of
\* totalLen bytes (zero-filled where the parts fall short).
ConcatArray(parts, total) ==
  LET all == Flatten(parts)
  IN  IF Len(all) >= total THEN SubSeq(all, 1, total)
      ELSE all \o [i \in 1..(total - Len(all)) |-> "0"]

\* chunk.slice(start, end); end = -1 stands for an omitted end.
NoEnd == 0 - 1
Slice(chunk, start, end) ==
  SubSeq(chunk, start + 1, IF end = NoEnd THEN Len(chunk) ELSE Min(end, Len(chunk)))

\* String.replace(/\r\n?|\n\r/g, '\n'): leftmost match first, alternatives in
\* order, the scan resuming after each match.
RECURSIVE Normalize(_)
Normalize(str) ==
  IF str = <<>> THEN <<>>
  ELSE IF str[1] = CR
       THEN <<LF>> \o Normalize(SubSeq(str,
              (IF Len(str) >= 2 /\ str[2] = LF THEN 3 ELSE 2), Len(str)))
  ELSE IF str[1] = LF /\ Len(str) >= 2 /\ str[2] = CR
       THEN <<LF>> \o Normalize(SubSeq(str, 3, Len(str)))
  ELSE <<str[1]>> \o Normalize(Tail(str))

\* storeSlice() putting the new part in front of the saved ones.
StoreSliceInFront(s, start, end) ==
  IF end # 0
  THEN [s EXCEPT !.partListNull = FALSE,
                 !.partList = <<Slice(s.chunk, start, end)>>
                                \o (IF s.partListNull THEN <<>> ELSE s.partList),
                 !.partListTotalByteLen =
                    @ + (IF end \in {NoEnd, 0} THEN Len(s.chunk) ELSE end) - start]
  ELSE [s EXCEPT !.partListNull = FALSE,
                 !.partList = IF s.partListNull THEN <<>> ELSE s.partList]

\* Parser.storeSlice(start, end) on parser state s.
StoreSlice(s, start, end) ==
  LET parts == IF s.partListNull THEN <<>> ELSE s.partList
  IN  IF end # 0
      THEN [s EXCEPT !.partListNull = FALSE,
                     !.partList = Append(parts, Slice(s.chunk, start, end)),
                     !.partListTotalByteLen =
                        @ + (IF end \in {NoEnd, 0} THEN Len(s.chunk) ELSE end) - start]
      ELSE [s EXCEPT !.partListNull = FALSE, !.partList = parts]

\* buildSlice() normalizing the newlines of each part before joining them.
JoinNormalizedParts(t) ==
  [s |-> [t EXCEPT !.partListNull = TRUE, !.partList = <<>>,
                   !.partListTotalByteLen = 0],
   str |-> Flatten([i \in 1..Len(t.partList) |-> Normalize(DecodeArray(t.partList[i]))])]

\* The tail of buildSlice on state t, storeSlice done: the parts are joined
\* and decoded, and the list is dropped.
JoinParts(t) ==
  [s |-> [t EXCEPT !.partListNull = TRUE, !.partList = <<>>,
                   !.partListTotalByteLen = 0],
   str |-> DecodeArray(ConcatArray(t.partList, t.partListTotalByteLen))]

\* Parser.buildSlice(start, end): the parser state afterwards and the string.
BuildSlice(s, start, end) == JoinParts(StoreSlice(s, start, end))

\* The return statement of getSlice on the slice r.
Normalized(r) == [s |-> r.s, str |-> Normalize(r.str)]

\* Parser.getSlice(start, end).
GetSlice(s, start, end) ==
  Normalized(IF ~s.partListNull THEN BuildSlice(s, start, end)
             ELSE [s |-> s, str |-> DecodeArray(Slice(s.chunk, start, end))])

\* ------------------------------------------------------------ symbol table

\* ParserConfig of one parser: the prefix list and the namespace registry
\* (the element and attribute lists are the fixed tables above).
ConfigInit == [prefixList |-> PrefixNames, namespaceList |-> NamespaceInit]

\* config.namespaceList[id]: the id when there is such a namespace.
NamespaceAt(c, id) == IF id \in 1..Len(c.namespaceList) THEN id ELSE Nil

\* config.addPrefix(name): the prefix token of that name, created if new.
AddPrefix(c, name) ==
  IF \E i \in 1..Len(c.prefixList) : c.prefixList[i] = name
  THEN [c |-> c, id |-> CHOOSE i \in 1..Len(c.prefixList) : c.prefixList[i] = name]
  ELSE [c |-> [c EXCEPT !.prefixList = Append(@, name)], id |-> Len(c.prefixList) + 1]

\* new Namespace(name, uri, config.maxNamespace + 1) and
\* config.bindNamespace(ns, name, parser): the registry with the namespace
\* added, and its id.
BindNamespace(c, name, uri) ==
  [c |-> [c EXCEPT !.namespaceList = Append(@, [uri |-> uri, defaultPrefix |-> name])],
   id |-> Len(c.namespaceList) + 1]

\* A reference to one of the table's lists.  A bind that adds an entry may
\* unlink the config, which replaces its list objects: the object referred
\* to is told by the entries the table had when the reference was taken.
Generation(c) == Len(c.prefixList) + Len(c.namespaceList)
ListRef(c, space) == [space |-> space, gen |-> Generation(c)]
NoList == [space |-> "none", gen |-> 0]

\* partialList[code].buf: the bytes of the name of entry `code`.  Lists only
\* grow, so an entry an older list object has is the current one.
EntryBuf(c, ref, code) ==
  CASE ref.space = "element" -> ElementNames[code]
    [] ref.space = "attribute" -> AttributeNames[code]
    [] ref.space = "prefix" -> c.prefixList[code]
    [] ref.space = "uri" -> c.namespaceList[code].uri

\* -------------------------------------------------------------- the parser

\* tokenBuffer[index] = tok (a JS array assignment, index from 0).
PutToken(tb, index, tok) ==
  [i \in 1..Max(Len(tb), index + 1) |->
     IF i = index + 1 THEN tok ELSE IF i <= Len(tb) THEN tb[i] ELSE Undefined]

\* A parser's world while it decodes: s its fields and cursor, c its config,
\* tb the buffer of its current chunk, top the last object identity given out.

\* resolve() without its test of the recorded prefix: every name of the open
\* tag is patched.
ResolveAnyPrefix(w, elementStart, tokenNum, prefix, idNamespace) ==
  [w EXCEPT
    !.c.namespaceList[idNamespace].defaultPrefix =
        IF @ = <<>> THEN w.c.prefixList[prefix] ELSE @,
    !.s.namespaceList = @ \cup {idNamespace},
    !.s.namespacesChanged = TRUE,
    !.tb = [i \in 1..Len(w.tb) |->
              IF (i - 1) \in elementStart..tokenNum /\ IsMemberToken(w.tb[i])
              THEN ResolveToken(w.tb[i], idNamespace) ELSE w.tb[i]]]

\* Parser.resolve(elementStart, tokenNum, prefix, idNamespace)
Resolve(w, elementStart, tokenNum, prefix, idNamespace) ==
  LET ns == idNamespace
      len == tokenNum - elementStart
      hit(pos) == /\ pos \in 0..len
                  /\ pos \in Slots
                  /\ w.s.prefixBuffer[pos] = prefix
                  /\ (pos + elementStart + 1) \in 1..Len(w.tb)
                  /\ IsMemberToken(w.tb[pos + elementStart + 1])
  IN  [w EXCEPT
        !.c.namespaceList[ns].defaultPrefix =
            IF @ = <<>> THEN w.c.prefixList[prefix] ELSE @,
        !.s.namespaceList = @ \cup {ns},
        !.s.namespacesChanged = TRUE,
        !.tb = [i \in 1..Len(w.tb) |->
                  IF hit(i - 1 - elementStart) THEN ResolveToken(w.tb[i], ns) ELSE w.tb[i]],
        !.s.namespaceBuffer = [pos \in Slots |-> IF hit(pos) THEN Nil ELSE @[pos]]]

\* CodeType.OPEN_ELEMENT_ID
Case_OPEN_ELEMENT_ID(w, code) ==
  LET tokenNum == w.s.tokenNum + 1
  IN  [w EXCEPT !.s.latestElement = ElementOpen(code),
                !.tb = PutToken(@, tokenNum, ElementOpen(code)),
                !.s.tokenNum = tokenNum,
                !.s.prefixBuffer[0] = w.s.latestPrefix,
                !.s.elementStart = tokenNum]

\* CodeType.CLOSE_ELEMENT_ID
Case_CLOSE_ELEMENT_ID(w, code) ==
  [w EXCEPT !.tb = PutToken(@, w.s.tokenNum + 1, ElementClose(code)),
            !.s.tokenNum = @ + 1]

\* The loop over the unknown names queued for the open tag.
RECURSIVE ResolveUnknown(_, _, _)
ResolveUnknown(w, tb, pos) ==
  IF pos >= w.s.unknownCount THEN tb
  ELSE LET offset == w.s.unknownOffsetList[pos]
           ns == w.s.namespaceBuffer[offset]
           at == offset + w.s.elementStart
       IN  ResolveUnknown(w,
             IF ns # Nil
             THEN PutToken(tb, at, ResolveToken(tb[at + 1], NamespaceAt(w.c, ns)))
             ELSE tb,
             pos + 1)

\* The statements after the loop: latestElement is read back from the buffer
\* when names were queued, and the emitted (or close) token is written.
EmitElement(w, tb1, latestElement, closed) ==
  [w EXCEPT !.s.latestElement = latestElement,
            !.s.unknownCount = 0,
            !.tb = PutToken(tb1, w.s.tokenNum + 1,
                     IF closed THEN CloseOf(latestElement) ELSE EmittedOf(latestElement)),
            !.s.tokenNum = @ + 1,
            !.s.elementStart = 0 - 1]

\* CodeType.ELEMENT_EMITTED (closed = FALSE), CLOSED_ELEMENT_EMITTED (TRUE)
Case_ELEMENT_EMITTED(w, closed) ==
  IF w.s.unknownCount # 0
  THEN EmitElement(w, ResolveUnknown(w, w.tb, 0),
                   ResolveUnknown(w, w.tb, 0)[w.s.elementStart + 1], closed)
  ELSE EmitElement(w, w.tb, w.s.latestElement, closed)

\* ATTRIBUTE_ID recording the latest prefix only, without the element's own.
AttributeKeepsLatestPrefix(w, code) ==
  [w EXCEPT !.tb = PutToken(@, w.s.tokenNum + 1, AttributeString(code)),
            !.s.tokenNum = w.s.tokenNum + 1,
            !.s.prefixBuffer[w.s.tokenNum + 1 - w.s.elementStart] = w.s.latestPrefix]

\* CodeType.ATTRIBUTE_ID
Case_ATTRIBUTE_ID(w, code) ==
  LET tokenNum == w.s.tokenNum + 1
  IN  [w EXCEPT !.tb = PutToken(@, tokenNum, AttributeString(code)),
                !.s.tokenNum = tokenNum,
                !.s.prefixBuffer[tokenNum - w.s.elementStart] =
                   IF w.s.latestPrefix # Nil THEN w.s.latestPrefix ELSE w.s.prefixBuffer[0]]

\* The payload of PREFIX_ID packs the namespace id above 14 bits of prefix id.
PrefixBits == 16384

\* CodeType.XMLNS_ID
Case_XMLNS_ID(w, code) == [w EXCEPT !.s.latestPrefix = code]

\* CodeType.PREFIX_ID (falls through to XMLNS_ID)
Case_PREFIX_ID(w, code) ==
  Case_XMLNS_ID([w EXCEPT !.s.latestNamespace = NamespaceAt(w.c, code \div PrefixBits)],
                code % PrefixBits)

\* CodeType.NAMESPACE_ID
Case_NAMESPACE_ID(w, code) ==
  [Resolve(w, w.s.elementStart, w.s.tokenNum, w.s.latestPrefix, code)
     EXCEPT !.s.latestPrefix = Nil]

\* CodeType.TEXT_START_OFFSET, VALUE_START_OFFSET, COMMENT_START_OFFSET,
\* UNKNOWN_START_OFFSET
Case_START_OFFSET(w, code) == [w EXCEPT !.s.partStart = code]

\* unknownElementTbl[name], unknownAttributeTbl[name]: a lookup in a JS object
\* literal, which finds inherited properties too.
TableGet(tbl, name) ==
  IF name \in DOMAIN tbl THEN tbl[name]
  ELSE IF name \in ObjectPrototypeKeys THEN ObjectFunction
  ELSE Undefined

\* tbl[name] = tok
TablePut(tbl, name, tok) == (name :> tok) @@ tbl

\* The open-element case on the name g.str just sliced; found is the table's
\* entry for it.
UnknownOpenElement(w, g, found) ==
  [w EXCEPT
    !.s = [g.s EXCEPT
             !.unknownElementTbl =
                IF found.kind = "undefined"
                THEN TablePut(@, g.str, Tok("open", g.str, Nil, w.top + 1)) ELSE @,
             !.latestElement =
                IF found.kind = "undefined" THEN Tok("open", g.str, Nil, w.top + 1)
                ELSE found,
             !.tokenNum = @ + 1,
             !.prefixBuffer[0] = w.s.latestPrefix,
             !.namespaceBuffer[0] = w.s.latestNamespace,
             !.elementStart = w.s.tokenNum + 1,
             !.unknownOffsetList[0] = 0,
             !.unknownCount = 1,
             !.partStart = 0 - 1],
    !.top = IF found.kind = "undefined" THEN @ + 1 ELSE @,
    !.tb = PutToken(@, w.s.tokenNum + 1,
             IF found.kind = "undefined" THEN Tok("open", g.str, Nil, w.top + 1)
             ELSE found)]

\* CodeType.UNKNOWN_OPEN_ELEMENT_END_OFFSET
Case_UNKNOWN_OPEN_ELEMENT_END_OFFSET(w, code) ==
  UnknownOpenElement(w, GetSlice(w.s, w.s.partStart, code),
    TableGet(w.s.unknownElementTbl, GetSlice(w.s, w.s.partStart, code).str))

\* The close-element case on the name g.str just sliced.
UnknownCloseElement(w, g) ==
  [w EXCEPT !.s = [g.s EXCEPT !.tokenNum = @ + 1, !.partStart = 0 - 1],
            !.tb = PutToken(@, w.s.tokenNum + 1,
                     IF w.s.latestNamespace # Nil
                     THEN Tok("close", g.str, w.s.latestNamespace, Nil)
                     ELSE CloseOf(TableGet(w.s.unknownElementTbl, g.str)))]

\* CodeType.UNKNOWN_CLOSE_ELEMENT_END_OFFSET
Case_UNKNOWN_CLOSE_ELEMENT_END_OFFSET(w, code) ==
  UnknownCloseElement(w, GetSlice(w.s, w.s.partStart, code))

\* The attribute case on the name g.str just sliced; found is the table's
\* entry for it, pos the name's place in the tag.
UnknownAttribute(w, g, found, pos) ==
  [w EXCEPT
    !.s = [g.s EXCEPT
             !.unknownAttributeTbl =
                IF found.kind = "undefined"
                THEN TablePut(@, g.str, Tok("string", g.str, Nil, w.top + 1)) ELSE @,
             !.tokenNum = @ + 1,
             !.prefixBuffer[pos] = w.s.latestPrefix,
             !.namespaceBuffer[pos] = w.s.latestNamespace,
             !.unknownOffsetList[w.s.unknownCount] = pos,
             !.unknownCount = @ + 1,
             !.partStart = 0 - 1],
    !.top = IF found.kind = "undefined" THEN @ + 1 ELSE @,
    !.tb = PutToken(@, w.s.tokenNum + 1,
             IF found.kind = "undefined" THEN Tok("string", g.str, Nil, w.top + 1)
             ELSE found)]

\* CodeType.UNKNOWN_ATTRIBUTE_END_OFFSET
Case_UNKNOWN_ATTRIBUTE_END_OFFSET(w, code) ==
  UnknownAttribute(w, GetSlice(w.s, w.s.partStart, code),
    TableGet(w.s.unknownAttributeTbl, GetSlice(w.s, w.s.partStart, code).str),
    w.s.tokenNum + 1 - w.s.elementStart)

\* The text case on the string g.str just sliced.
PushString(w, g) ==
  [w EXCEPT !.s = [g.s EXCEPT !.tokenNum = @ + 1, !.partStart = 0 - 1],
            !.tb = PutToken(@, w.s.tokenNum + 1, StringValue(g.str))]

\* CodeType.VALUE_END_OFFSET, TEXT_END_OFFSET
Case_TEXT_END_OFFSET(w, code) == PushString(w, GetSlice(w.s, w.s.partStart, code))

\* The comment case on the string g.str just sliced.
PushComment(w, g) ==
  [w EXCEPT !.s = [g.s EXCEPT !.tokenNum = @ + 2, !.partStart = 0 - 1],
            !.tb = PutToken(PutToken(@, w.s.tokenNum + 1, CommentToken),
                            w.s.tokenNum + 2, StringValue(g.str))]

\* CodeType.COMMENT_END_OFFSET
Case_COMMENT_END_OFFSET(w, code) == PushComment(w, GetSlice(w.s, w.s.partStart, code))

\* The unknown-URI case once the namespace is made: b is the registry with
\* it and its id, g the slice of its URI.
ResolveNew(w, g, b) ==
  [Resolve([w EXCEPT !.s = g.s, !.c = b.c],
           w.s.elementStart, w.s.tokenNum, w.s.latestPrefix, b.id)
     EXCEPT !.s.latestPrefix = Nil, !.s.partStart = 0 - 1]

\* CodeType.UNKNOWN_URI_END_OFFSET
Case_UNKNOWN_URI_END_OFFSET(w, code) ==
  ResolveNew(w, GetSlice(w.s, w.s.partStart, code),
    BindNamespace(w.c, w.c.prefixList[w.s.latestPrefix],
                  GetSlice(w.s, w.s.partStart, code).str))

\* The unknown-prefix case: a is the prefix list with the prefix, and its id.
LatchPrefix(w, g, a) ==
  [w EXCEPT !.s = [g.s EXCEPT !.latestPrefix = a.id, !.partStart = 0 - 1],
            !.c = a.c]

\* CodeType.UNKNOWN_PREFIX_END_OFFSET, UNKNOWN_XMLNS_END_OFFSET
Case_UNKNOWN_PREFIX_END_OFFSET(w, code) ==
  LatchPrefix(w, GetSlice(w.s, w.s.partStart, code),
              AddPrefix(w.c, GetSlice(w.s, w.s.partStart, code).str))

\* CodeType.PARTIAL_LEN
Case_PARTIAL_LEN(w, code) == [w EXCEPT !.s.partialLen = code]

\* The partial-*-id cases leaving the byte total of the parts as it was.
PartialKeepsTotal(w, buf) ==
  [w EXCEPT !.s.partListNull = FALSE,
            !.s.partList = << SubSeq(buf, 1, Min(w.s.partialLen, Len(buf))) >>]

\* CodeType.PARTIAL_URI_ID, PARTIAL_PREFIX_ID, PARTIAL_ATTRIBUTE_ID,
\* PARTIAL_ELEMENT_ID: buf is the name of entry `code` of the list the kind
\* selects.
Case_PARTIAL_ID(w, buf) ==
  [w EXCEPT !.s.partListNull = FALSE,
            !.s.partList = << SubSeq(buf, 1, Min(w.s.partialLen, Len(buf))) >>,
            !.s.partListTotalByteLen = w.s.partialLen]

\* The list a partial-*-id op-code reads: the cases fall through from URI to
\* PREFIX to ATTRIBUTE to ELEMENT, l the references the pass holds.
PartialAfterUri(kind, l) ==
  IF kind = "PARTIAL_URI_ID" THEN l.uriList ELSE l.partialList
PartialAfterPrefix(kind, l) ==
  IF kind \in {"PARTIAL_URI_ID", "PARTIAL_PREFIX_ID"}
     /\ PartialAfterUri(kind, l) = l.elementList
  THEN l.prefixList ELSE PartialAfterUri(kind, l)
PartialList(kind, l) ==
  IF kind \in {"PARTIAL_URI_ID", "PARTIAL_PREFIX_ID", "PARTIAL_ATTRIBUTE_ID"}
     /\ PartialAfterPrefix(kind, l) = l.elementList
  THEN l.attributeList ELSE PartialAfterPrefix(kind, l)

\* The four partial-*-id cases: the name's first bytes are saved, and
\* partialList is set back to the element list.
Case_PARTIAL(w, kind, code) ==
  [Case_PARTIAL_ID(w, EntryBuf(w.c, PartialList(kind, w.s.lists), code))
     EXCEPT !.s.lists.read = PartialList(kind, w.s.lists),
            !.s.lists.partialList = w.s.lists.elementList]

\* The list references parseCodeBuffer takes when a pass begins.
FetchLists(w) ==
  [elementList |-> ListRef(w.c, "element"),
   attributeList |-> ListRef(w.c, "attribute"),
   prefixList |-> ListRef(w.c, "prefix"),
   uriList |-> ListRef(w.c, "uri"),
   partialList |-> ListRef(w.c, "element"),
   read |-> NoList]

\* The references updated after a bind: partialList is not among them.
RefetchLists(w) ==
  [w EXCEPT !.s.lists.elementList = ListRef(w.c, "element"),
            !.s.lists.attributeList = ListRef(w.c, "attribute"),
            !.s.lists.prefixList = ListRef(w.c, "prefix"),
            !.s.lists.uriList = ListRef(w.c, "uri")]

\* A pass that goes on with the references the pass before it held.
PassKeepsLists(w) == w

\* The next pass of parseCodeBuffer begins.
ParseCodeBufferBegin(w) == [w EXCEPT !.s.lists = FetchLists(w)]

\* The end of parseCodeBuffer(pending): the open byte range is saved when the
\* input buffer is exhausted, and the cursor is stored.
ParseCodeBufferEnd(w, pending) ==
  [w EXCEPT !.s = IF ~pending /\ w.s.partStart >= 0
                  THEN [StoreSlice(w.s, w.s.partStart, NoEnd) EXCEPT !.partStart = 0]
                  ELSE w.s,
            !.length = w.s.tokenNum + 1]

\* One pass of the switch of parseCodeBuffer over one op-code.
ParseCode(w, kind, code) ==
  CASE kind = "OPEN_ELEMENT_ID" -> Case_OPEN_ELEMENT_ID(w, code)
    [] kind = "CLOSE_ELEMENT_ID" -> Case_CLOSE_ELEMENT_ID(w, code)
    [] kind = "ELEMENT_EMITTED" -> Case_ELEMENT_EMITTED(w, FALSE)
    [] kind = "CLOSED_ELEMENT_EMITTED" -> Case_ELEMENT_EMITTED(w, TRUE)
    [] kind = "ATTRIBUTE_ID" -> Case_ATTRIBUTE_ID(w, code)
    [] kind = "PREFIX_ID" -> Case_PREFIX_ID(w, code)
    [] kind = "XMLNS_ID" -> Case_XMLNS_ID(w, code)
    [] kind = "NAMESPACE_ID" -> Case_NAMESPACE_ID(w, code)
    [] kind \in {"TEXT_START_OFFSET", "VALUE_START_OFFSET", "COMMENT_START_OFFSET",
                 "UNKNOWN_START_OFFSET"} -> Case_START_OFFSET(w, code)
    [] kind = "UNKNOWN_OPEN_ELEMENT_END_OFFSET" -> Case_UNKNOWN_OPEN_ELEMENT_END_OFFSET(w, code)
    [] kind = "UNKNOWN_CLOSE_ELEMENT_END_OFFSET" -> Case_UNKNOWN_CLOSE_ELEMENT_END_OFFSET(w, code)
    [] kind = "UNKNOWN_ATTRIBUTE_END_OFFSET" -> Case_UNKNOWN_ATTRIBUTE_END_OFFSET(w, code)
    [] kind \in {"VALUE_END_OFFSET", "TEXT_END_OFFSET"} -> Case_TEXT_END_OFFSET(w, code)
    [] kind = "COMMENT_END_OFFSET" -> Case_COMMENT_END_OFFSET(w, code)
    \* the scanner flushes the code buffer right after these three: the pass
    \* ends, and the next one begins with the op-code that follows
    [] kind = "UNKNOWN_URI_END_OFFSET" ->
         ParseCodeBufferBegin(ParseCodeBufferEnd(
           RefetchLists(Case_UNKNOWN_URI_END_OFFSET(w, code)), TRUE))
    [] kind \in {"UNKNOWN_PREFIX_END_OFFSET", "UNKNOWN_XMLNS_END_OFFSET"} ->
         ParseCodeBufferBegin(ParseCodeBufferEnd(
           RefetchLists(Case_UNKNOWN_PREFIX_END_OFFSET(w, code)), TRUE))
    [] kind = "PARTIAL_LEN" -> Case_PARTIAL_LEN(w, code)
    [] kind \in {"PARTIAL_URI_ID", "PARTIAL_PREFIX_ID", "PARTIAL_ATTRIBUTE_ID",
                 "PARTIAL_ELEMENT_ID"} -> Case_PARTIAL(w, kind, code)
    [] OTHER -> w

\* ------------------------------------------------------------------- state

VARIABLES
  doc,       \* the document's readable bytes
  split,     \* byte offset at which parser 2's input is cut in two writes
  listener,  \* the listener of the 'error' event
  phase,     \* where the feeding of the document stands
  scan,      \* the native scanner: cursor, grammar state, status
  parser,    \* parser[p]: the fields of Parser instance p
  config,    \* config[p]: the ParserConfig of parser p
  chunks,    \* the TokenChunk objects ever created (id = index)
  first,     \* TokenChunk.first, the head of the static free list
  top,       \* the last object identity `new` handed out
  out,       \* out[p]: the chunks parser p handed to its consumer
  io,        \* io[p]: what happened on parser p's stream interface
  held,      \* pool specification: the chunks its clients hold
  ret        \* pool specification: the last call, the chunk it was about and
             \* what that chunk and the list head were before the call

vars == <<doc, split, listener, phase, scan, parser, config, chunks, first, top,
          out, io, held, ret>>

\* ---------------------------------------------------------- the chunk pool

\* new TokenChunk(): every field undefined.
NewChunk == [length |-> 0, buffer |-> <<>>, next |-> Nil, namespaceList |-> Nil]

\* allocate() leaving the namespace list of a reused chunk in place.
ResetKeepsList(base, id, buffer, first1) ==
  [chunks |-> [base EXCEPT ![id].length = Len(buffer), ![id].buffer = buffer,
                           ![id].next = Nil],
   first |-> first1,
   id |-> id]

\* allocate() on the chunk id, taken from the list base of chunks.
Reset(base, id, buffer, first1) ==
  [chunks |-> [base EXCEPT ![id] = [length |-> Len(buffer), buffer |-> buffer,
                                    next |-> Nil, namespaceList |-> Nil]],
   first |-> first1,
   id |-> id]

\* TokenChunk.allocate(buffer) on pool h = [chunks, first]: the pool
\* afterwards and the chunk returned.
Allocate(h, buffer) ==
  IF h.first # Nil
  THEN Reset(h.chunks, h.first, buffer, h.chunks[h.first].next)
  ELSE Reset(Append(h.chunks, NewChunk), Len(h.chunks) + 1, buffer, h.first)

\* chunk.free() on pool h.
Free(h, id) ==
  [chunks |-> [h.chunks EXCEPT ![id].next = h.first], first |-> id]

\* ------------------------------------------------------- the parser, cont.

\* The fields of a new Parser (field initialisers and constructor); its
\* first chunk is allocated from the pool.
ParserInit(chunkId) ==
  [hasError |-> FALSE,
   chunk |-> <<>>,
   tokenChunk |-> chunkId,
   namespaceList |-> {},
   namespacesChanged |-> TRUE,
   partListNull |-> TRUE,
   partList |-> <<>>,
   partListTotalByteLen |-> 0,
   partStart |-> 0 - 1,
   partialLen |-> 0,
   lists |-> [elementList |-> NoList, attributeList |-> NoList,
              prefixList |-> NoList, uriList |-> NoList,
              partialList |-> NoList, read |-> NoList],
   latestElement |-> Undefined,
   latestPrefix |-> Nil,
   latestNamespace |-> Nil,
   tokenNum |-> 0 - 1,
   elementStart |-> 0 - 1,
   prefixBuffer |-> EmptySlots,
   namespaceBuffer |-> EmptySlots,
   unknownElementTbl |-> <<>>,
   unknownAttributeTbl |-> <<>>,
   unknownOffsetList |-> EmptySlots,
   unknownCount |-> 0]

\* What the model records of parser p's stream interface.
IoInit ==
  [active |-> FALSE,       \* a _transform call has begun and not yet returned
   failed |-> FALSE,       \* the scanner has returned a non-OK status
   transforms |-> 0,       \* calls of _transform
   nativeCalls |-> 0,      \* calls of native.parse
   lateCalls |-> 0,        \* calls of native.parse after a non-OK status
   callbacks |-> 0,        \* calls of the completion callback
   errors |-> 0,           \* 'error' events emitted
   touched |-> {},         \* namespaces bound while the current chunk fills
   ended |-> FALSE,        \* _flush has run
   sync |-> <<>>,          \* the 'data' handlers parseSync has installed
   released |-> 0,         \* free() calls of the handlers on the chunk in delivery
   returned |-> <<>>]      \* what the parseSync calls returned

\* The process state handlers act on, gathered in one record.
Process ==
  [parser |-> parser, config |-> config, chunks |-> chunks, first |-> first,
   top |-> top, out |-> out, io |-> io]

Commit(g) ==
  /\ parser' = g.parser
  /\ config' = g.config
  /\ chunks' = g.chunks
  /\ first' = g.first
  /\ top' = g.top
  /\ out' = g.out
  /\ io' = g.io

\* Parser p's world: s its fields and cursor, c its config, tb and length its
\* current chunk, top the last object identity given out.
World(g, p) ==
  [s |-> g.parser[p], c |-> g.config[p],
   tb |-> g.chunks[g.parser[p].tokenChunk].buffer,
   length |-> g.chunks[g.parser[p].tokenChunk].length, top |-> g.top]

\* The world r written back to parser p, whose current chunk is id.
Store(g, p, id, r) ==
  [g EXCEPT !.parser[p] = r.s,
            !.config[p] = r.c,
            !.chunks[id].buffer = r.tb,
            !.chunks[id].length = r.length,
            !.top = r.top]

\* Parser p decodes one op-code (one turn of the loop of parseCodeBuffer).
Decode(g, p, kind, code) ==
  Store(g, p, g.parser[p].tokenChunk, ParseCode(World(g, p), kind, code))

\* Parser._transform up to the return of native.parse: the latch is tested,
\* the input buffer installed and the scanner called.
TransformBegin(g, p, data) ==
  IF g.parser[p].hasError
  THEN [g EXCEPT !.io[p].transforms = @ + 1]
  ELSE [g EXCEPT !.parser[p].chunk = data,
                 !.parser[p].tokenNum = g.chunks[g.parser[p].tokenChunk].length - 1,
                 !.parser[p].lists = FetchLists(World(g, p)),
                 !.io[p].transforms = @ + 1,
                 !.io[p].active = TRUE,
                 !.io[p].nativeCalls = @ + 1,
                 !.io[p].lateCalls = IF g.io[p].failed THEN @ + 1 ELSE @]

\* Parser.throwError: the event is emitted first; with no listener, or one
\* that throws, emit() throws and the assignment after it is not reached.
ThrowError(g, p, l) ==
  [g EXCEPT !.io[p].errors = @ + 1,
            !.parser[p].hasError = IF l = "returns" THEN TRUE ELSE @]

\* What a consumer receives with the emitted chunk id.
Emitted(g, p, id) ==
  [chunk |-> id,
   tokens |-> g.chunks[id].buffer,
   length |-> g.chunks[id].length,
   hasNamespaceList |-> g.chunks[id].namespaceList # Nil,
   namespaceList |-> IF g.chunks[id].namespaceList # Nil
                     THEN g.parser[g.chunks[id].namespaceList].namespaceList ELSE {},
   touched |-> g.io[p].touched,
   call |-> Len(g.io[p].sync),
   released |-> g.io[p].released]

\* flush(null, tokenChunk), and the chunk a that allocate() returns becomes
\* the parser's.
HandOver(g, p, id, a) ==
  [g EXCEPT !.out[p] = Append(@, Emitted(g, p, id)),
            !.io[p].callbacks = @ + 1,
            !.io[p].touched = {},
            !.io[p].released = 0,
            !.chunks = a.chunks,
            !.first = a.first,
            !.parser[p].tokenChunk = a.id]

\* The 'data' handler parseSync installed k-th on parser p, called with the
\* chunk id: the chunk's tokens are pushed onto the handler's array, which is
\* also the buffer of the chunk its parseSync call returned, and the chunk is
\* freed.  (A handler whose array is the buffer of the chunk it is called
\* with would not return; two calls per parser do not come to that.)
DataHandler(g, p, k, id, output) ==
  [g EXCEPT
    !.io[p].sync[k].buffer = @ \o g.chunks[id].buffer,
    !.io[p].sync[k].namespaceList =
       IF g.chunks[id].namespaceList # Nil THEN g.chunks[id].namespaceList ELSE @,
    !.io[p].released = @ + 1,
    !.chunks = [i \in 1..Len(g.chunks) |->
                  IF i = id THEN [g.chunks[i] EXCEPT !.next = g.first]
                  ELSE IF i = output
                  THEN [g.chunks[i] EXCEPT !.buffer = @ \o g.chunks[id].buffer]
                  ELSE g.chunks[i]],
    !.first = id]

\* emit('data', chunk): the handlers are called in the order they were
\* installed, from the k-th on.
RECURSIVE Deliver(_, _, _, _)
Deliver(g, p, k, id) ==
  IF k > Len(g.io[p].sync) THEN g
  ELSE Deliver(DataHandler(g, p, k, id, g.io[p].sync[k].output), p, k + 1, id)

\* this.tokenChunk = TokenChunk.allocate(), the chunk h.chunks[id] having
\* been passed to flush.
AllocateNext(h, p, id) ==
  HandOver(h, p, id, Allocate([chunks |-> h.chunks, first |-> h.first], <<>>))

\* The chunk is handed over, to the 'data' handlers when there are any, and
\* the next one allocated.
EmitChunk(g, p, id) == AllocateNext(Deliver(g, p, 1, id), p, id)

\* The namespace list is attached when namespacesChanged is set, and the
\* chunk handed over.
AttachAndEmit(g, p, id) ==
  EmitChunk(IF g.parser[p].namespacesChanged
            THEN [g EXCEPT !.chunks[id].namespaceList = p] ELSE g,
            p, id)

\* _transform handing the chunk over whether or not a start tag is open.
FinishEmitsAlways(g, p, id, status, l) ==
  IF status # "ok"
  THEN [ThrowError(g, p, l) EXCEPT !.io[p].failed = TRUE]
  ELSE AttachAndEmit(g, p, id)

\* _transform after the last pass over the code buffer.
Finish(g, p, id, status, l) ==
  IF status # "ok"
  THEN [ThrowError(g, p, l) EXCEPT !.io[p].failed = TRUE]
  ELSE IF g.parser[p].elementStart < 0
  THEN AttachAndEmit(g, p, id)
  ELSE [g EXCEPT !.io[p].callbacks = @ + 1]

\* The last pass written back.
StoreEnd(g, p, id, r) ==
  [g EXCEPT !.parser[p] = r.s, !.chunks[id].length = r.length,
            !.io[p].active = FALSE]

\* Parser._transform from the return of native.parse: the last pass over the
\* code buffer, then the error or the hand-over of the chunk.
TransformEnd(g, p, status, l) ==
  Finish(StoreEnd(g, p, g.parser[p].tokenChunk, ParseCodeBufferEnd(World(g, p), FALSE)),
         p, g.parser[p].tokenChunk, status, l)

\* Parser.parseSync up to the return of native.parse: the handlers are
\* installed and the data written.
ParseSyncBegin(g, p, data) ==
  TransformBegin(
    [g EXCEPT !.io[p].sync = Append(@, [buffer |-> <<>>, namespaceList |-> Nil,
                                        output |-> Nil])],
    p, data)

\* The chunk a, allocated around the array of the call's handler, is returned.
Return(g, p, k, a) ==
  [g EXCEPT !.chunks = [a.chunks EXCEPT ![a.id].namespaceList =
                                           g.io[p].sync[k].namespaceList],
            !.first = a.first,
            !.io[p].sync[k].output = a.id,
            !.io[p].returned =
               Append(@, [chunk |-> a.id,
                          tokens |-> a.chunks[a.id].buffer,
                          length |-> a.chunks[a.id].length])]

\* The end of Parser.parseSync, write() having returned.
ParseSyncReturn(g, p) ==
  Return(g, p, Len(g.io[p].sync),
         Allocate([chunks |-> g.chunks, first |-> g.first],
                  g.io[p].sync[Len(g.io[p].sync)].buffer))

\* Parser.parseSync from the return of native.parse: the rest of _transform,
\* and the return unless the 'error' handler threw.
ParseSyncEnd(g, p, status) ==
  IF status = "ok" THEN ParseSyncReturn(TransformEnd(g, p, status, "throws"), p)
  ELSE TransformEnd(g, p, status, "throws")

\* Parser._flush
FlushStream(g, p) ==
  [g EXCEPT !.io[p].callbacks = @ + 1, !.io[p].ended = TRUE]

\* ------------------------------------------------------------- the scanner

\* Prefix ids the scanner can hold a binding for.
PrefixIds == 1..(Len(PrefixNames) + MaxCodes)

ScanInit ==
  [pos |-> 0,            \* cursor: readable bytes of the document consumed
   run |-> "none",       \* the byte range being read, if any
   runStart |-> 0,       \* where it began
   mode |-> "content",   \* grammar state between op-codes
   xmlns |-> Nil,        \* the prefix whose xmlns definition is being read
   bound |-> [i \in PrefixIds |-> Nil],  \* the namespace each prefix is bound to
   tagBound |-> {},      \* the prefixes the current start tag binds
   pfx |-> Nil,          \* the prefix read last, before a name
   uses |-> {},          \* <<offset, prefix>> of the prefixed names of the tag
   seen |-> Nil,         \* the prefix read last since the tag opened, unbound yet
   trie |-> [r |-> "none", kind |-> "none", id |-> Nil],
                         \* the predeclared name the range being read matches
                         \* so far, and what the name is read as
   last |-> "none",      \* the kind of the last op-code written
   status |-> "ok",      \* ErrorType.OK or not
   codes |-> 0,          \* op-codes written so far
   budget |-> 0]         \* op-codes the scanner will write at most

\* The scanner may write an op-code: a write is being parsed, no error yet.
CanScan ==
  /\ phase \in {"w1", "w2"}
  /\ scan.status = "ok"
  /\ scan.codes < scan.budget

\* Where parser p's current input buffer starts in the document, and the
\* scanner's cursor as an offset into that buffer.
Base(p) == IF p = 2 /\ phase = "w2" THEN split ELSE 0
Off(p) == scan.pos - Base(p)

\* The end of the bytes the current write holds.
Limit == IF phase = "w1" THEN split ELSE Len(doc)

\* The bytes of the range being read.
RunBytes == SubSeq(doc, scan.runStart + 1, scan.pos)

\* Both parsers decode the op-code the scanner wrote for the same event.
Emit(kind, code1, code2, scan2) ==
  /\ Commit(Decode(Decode(Process, 1, kind, code1), 2, kind, code2))
  /\ scan' = [scan2 EXCEPT !.codes = @ + 1, !.last = kind]
  /\ UNCHANGED <<doc, split, listener, phase, held, ret>>

\* Namespace ns is noted as bound while each parser's current chunk fills.
Touch(g, ns) ==
  [g EXCEPT !.io = [p \in Parsers |-> [g.io[p] EXCEPT !.touched = @ \cup {ns}]]]

\* The same, for an event that binds a prefix to namespace ns.
EmitBinding(kind, code1, code2, scan2, ns) ==
  /\ Commit(Touch(Decode(Decode(Process, 1, kind, code1), 2, kind, code2), ns))
  /\ scan' = [scan2 EXCEPT !.codes = @ + 1, !.last = kind]
  /\ UNCHANGED <<doc, split, listener, phase, held, ret>>

\* The scanner reads one more byte of the open range.
ScanByte ==
  /\ phase \in {"w1", "w2"}
  /\ scan.status = "ok"
  /\ scan.run # "none"
  /\ scan.pos < Limit
  /\ scan' = [scan EXCEPT !.pos = @ + 1]
  /\ UNCHANGED <<doc, split, listener, phase, parser, config, chunks, first, top,
                 out, io, held, ret>>

\* The scanner meets malformed input: native.parse will return non-OK.
ScanError ==
  /\ phase \in {"w1", "w2"}
  /\ scan.status = "ok"
  /\ scan' = [scan EXCEPT !.status = "error"]
  /\ UNCHANGED <<doc, split, listener, phase, parser, config, chunks, first, top,
                 out, io, held, ret>>

StartRun(r) == [scan EXCEPT !.run = r, !.runStart = scan.pos]
EndRun(m) == [scan EXCEPT !.run = "none", !.mode = m]

TextStart ==
  /\ CanScan /\ scan.run = "none" /\ scan.mode = "content"
  /\ Emit("TEXT_START_OFFSET", Off(1), Off(2), StartRun("text"))

TextEnd ==
  /\ CanScan /\ scan.run = "text" /\ scan.pos > scan.runStart
  /\ Emit("TEXT_END_OFFSET", Off(1), Off(2), EndRun("content"))

CommentStart ==
  /\ CanScan /\ scan.run = "none" /\ scan.mode = "content"
  /\ Emit("COMMENT_START_OFFSET", Off(1), Off(2), StartRun("comment"))

CommentEnd ==
  /\ CanScan /\ scan.run = "comment"
  /\ Emit("COMMENT_END_OFFSET", Off(1), Off(2), EndRun("content"))

ValueStart ==
  /\ CanScan /\ scan.run = "none" /\ scan.mode = "attrValue"
  /\ Emit("VALUE_START_OFFSET", Off(1), Off(2), StartRun("value"))

ValueEnd ==
  /\ CanScan /\ scan.run = "value"
  /\ Emit("VALUE_END_OFFSET", Off(1), Off(2), EndRun("tag"))

\* The start of a name the scanner does not know; r tells which name.
UnknownStart(r) ==
  /\ CanScan /\ scan.run = "none"
  /\ \/ r \in {"uopen", "uclose"} /\ scan.mode \in {"content", "prefixed"}
     \/ r = "uattr" /\ scan.mode \in {"tag", "prefixedAttr"}
     \/ r = "uprefix" /\ scan.mode \in {"content", "tag"}
     \/ r = "uxmlns" /\ scan.mode = "tag"
     \/ r = "uuri" /\ scan.mode = "xmlnsUri"
  /\ Emit("UNKNOWN_START_OFFSET", Off(1), Off(2), StartRun(r))

\* Only parser p decodes the op-code: the scanner of the other one wrote a
\* different code, or none, for the same bytes.
EmitTo(p, kind, code, scan2) ==
  /\ Commit(Decode(Process, p, kind, code))
  /\ scan' = [scan2 EXCEPT !.codes = @ + 1, !.last = kind]
  /\ UNCHANGED <<doc, split, listener, phase, held, ret>>

\* The predeclared names a name of each sort is matched against, and the
\* partial-*-id op-code of the sort.
Predeclared(r) ==
  CASE r = "uopen" -> ElementNames
    [] r = "uattr" -> AttributeNames
    [] r = "uprefix" -> PrefixNames
    [] r = "uuri" -> [n \in 1..Len(NamespaceInit) |-> NamespaceInit[n].uri]
PartialKind(r) ==
  CASE r = "uopen" -> "PARTIAL_ELEMENT_ID"
    [] r = "uattr" -> "PARTIAL_ATTRIBUTE_ID"
    [] r = "uprefix" -> "PARTIAL_PREFIX_ID"
    [] r = "uuri" -> "PARTIAL_URI_ID"

\* A name begins whose bytes, up to the end of the first write, are the
\* beginning of predeclared name id, and which turns out in the second write
\* not to be that name.  Parser 1 has the whole name in its input buffer and
\* is given its start offset; parser 2 is given nothing yet.
TrieStart(r, id) ==
  /\ CanScan /\ scan.run = "none" /\ phase = "w1"
  /\ \/ r = "uopen" /\ scan.mode \in {"content", "prefixed"}
     \/ r = "uattr" /\ scan.mode \in {"tag", "prefixedAttr"}
     \/ r = "uprefix" /\ scan.mode \in {"content", "tag"}
     \/ r = "uuri" /\ scan.mode = "xmlnsUri"
  /\ scan.pos < split
  /\ split - scan.pos <= Len(Predeclared(r)[id])
  /\ SubSeq(doc, scan.pos + 1, split) = SubSeq(Predeclared(r)[id], 1, split - scan.pos)
  /\ EmitTo(1, "UNKNOWN_START_OFFSET", Off(1),
            [StartRun("trie") EXCEPT !.trie = [r |-> r, kind |-> PartialKind(r),
                                               id |-> id]])

\* The name stops matching in the second write, where its first bytes are
\* no longer at hand: the scanner tells parser 2 how many bytes of which
\* predeclared name they were, and that the rest starts at offset 0.
PartialLen ==
  /\ CanScan /\ scan.run = "trie" /\ phase = "w2" /\ scan.pos > split
  /\ scan.last = "UNKNOWN_START_OFFSET"
  /\ EmitTo(2, "PARTIAL_LEN", split - scan.runStart, scan)

PartialId ==
  /\ CanScan /\ scan.run = "trie" /\ scan.last = "PARTIAL_LEN"
  /\ EmitTo(2, scan.trie.kind, scan.trie.id, scan)

PartialStart ==
  /\ CanScan /\ scan.run = "trie" /\ scan.last = scan.trie.kind
  /\ EmitTo(2, "UNKNOWN_START_OFFSET", 0,
            [scan EXCEPT !.run = scan.trie.r,
                         !.trie = [r |-> "none", kind |-> "none", id |-> Nil]])

\* The prefix a name written with one uses; offset is the name's place in its
\* start tag.
UsesOfElement == IF scan.mode = "prefixed" THEN {<<0, scan.pfx>>} ELSE {}
UsesOfAttribute ==
  scan.uses \cup (IF scan.mode = "prefixedAttr"
                  THEN {<<parser[1].tokenNum + 1 - parser[1].elementStart, scan.pfx>>}
                  ELSE {})

\* The id config.addPrefix gives the prefix whose name was just read.
ReadPrefix == AddPrefix(config[1], Normalize(DecodeArray(RunBytes))).id

\* A name found in an object literal's prototype is not a token: the code
\* calls resolve() on it when a namespace is remembered, which throws.  The
\* scanner model leaves that input out.
NameDecodable ==
  DecodeArray(RunBytes) \in ObjectPrototypeKeys => parser[1].latestNamespace = Nil

UnknownOpenElementEnd ==
  /\ CanScan /\ scan.run = "uopen" /\ scan.pos > scan.runStart
  /\ NameDecodable
  /\ Emit("UNKNOWN_OPEN_ELEMENT_END_OFFSET", Off(1), Off(2),
          [EndRun("tag") EXCEPT !.tagBound = {}, !.seen = Nil, !.uses = UsesOfElement])

\* An end tag closes an element that was opened: its name is in the table
\* (or it is resolved through the remembered namespace).
UnknownCloseElementEnd ==
  /\ CanScan /\ scan.run = "uclose" /\ scan.pos > scan.runStart
  /\ \/ parser[1].latestNamespace # Nil
     \/ TableGet(parser[1].unknownElementTbl, Normalize(DecodeArray(RunBytes))).kind
          # "undefined"
  /\ Emit("UNKNOWN_CLOSE_ELEMENT_END_OFFSET", Off(1), Off(2), EndRun("content"))

UnknownAttributeEnd ==
  /\ CanScan /\ scan.run = "uattr" /\ scan.pos > scan.runStart
  /\ NameDecodable
  /\ Emit("UNKNOWN_ATTRIBUTE_END_OFFSET", Off(1), Off(2),
          [EndRun("attrValue") EXCEPT !.uses = UsesOfAttribute])

UnknownPrefixEnd ==
  /\ CanScan /\ scan.run = "uprefix" /\ scan.pos > scan.runStart
  /\ Emit("UNKNOWN_PREFIX_END_OFFSET", Off(1), Off(2),
          [EndRun(IF scan.mode = "content" THEN "prefixed" ELSE "prefixedAttr")
             EXCEPT !.pfx = ReadPrefix,
                    !.seen = IF scan.mode = "tag" THEN ReadPrefix ELSE @])

UnknownXmlnsEnd ==
  /\ CanScan /\ scan.run = "uxmlns" /\ scan.pos > scan.runStart
  /\ Emit("UNKNOWN_XMLNS_END_OFFSET", Off(1), Off(2),
          [EndRun("xmlnsUri") EXCEPT !.xmlns = parser'[1].latestPrefix,
                                     !.seen = ReadPrefix])

UnknownUriEnd ==
  /\ CanScan /\ scan.run = "uuri" /\ scan.pos > scan.runStart
  /\ LET ns == Len(config[1].namespaceList) + 1
     IN  EmitBinding("UNKNOWN_URI_END_OFFSET", Off(1), Off(2),
                     [EndRun("tag") EXCEPT !.bound[scan.xmlns] = ns, !.xmlns = Nil,
                                           !.tagBound = @ \cup {scan.xmlns},
                                           !.seen = Nil], ns)

\* A prefix the scanner knows, before an element or attribute name; the
\* payload carries the namespace the scanner has the prefix bound to.
PrefixId(pfx) ==
  /\ CanScan /\ scan.run = "none" /\ scan.mode \in {"content", "tag"}
  /\ config[1].prefixList[pfx] # <<>>
  /\ LET code == scan.bound[pfx] * PrefixBits + pfx
     IN  Emit("PREFIX_ID", code, code,
              [scan EXCEPT !.mode = IF scan.mode = "content" THEN "prefixed"
                                    ELSE "prefixedAttr",
                           !.pfx = pfx,
                           !.seen = IF scan.mode = "tag" THEN pfx ELSE @])

OpenElementId(e) ==
  /\ CanScan /\ scan.run = "none" /\ scan.mode \in {"content", "prefixed"}
  /\ Emit("OPEN_ELEMENT_ID", e, e,
          [scan EXCEPT !.mode = "tag", !.tagBound = {}, !.seen = Nil,
                       !.uses = UsesOfElement])

CloseElementId(e) ==
  /\ CanScan /\ scan.run = "none" /\ scan.mode \in {"content", "prefixed"}
  /\ Emit("CLOSE_ELEMENT_ID", e, e, [scan EXCEPT !.mode = "content"])

AttributeId(a) ==
  /\ CanScan /\ scan.run = "none" /\ scan.mode \in {"tag", "prefixedAttr"}
  /\ Emit("ATTRIBUTE_ID", a, a,
          [scan EXCEPT !.mode = "attrValue", !.uses = UsesOfAttribute])

XmlnsId(pfx) ==
  /\ CanScan /\ scan.run = "none" /\ scan.mode = "tag"
  /\ Emit("XMLNS_ID", pfx, pfx,
          [scan EXCEPT !.mode = "xmlnsUri", !.xmlns = pfx, !.seen = pfx])

\* The URI of an xmlns definition is one the symbol table knows.
NamespaceId(n) ==
  /\ CanScan /\ scan.run = "none" /\ scan.mode = "xmlnsUri"
  /\ EmitBinding("NAMESPACE_ID", n, n,
                 [scan EXCEPT !.mode = "tag", !.bound[scan.xmlns] = n, !.xmlns = Nil,
                              !.tagBound = @ \cup {scan.xmlns}, !.seen = Nil], n)

ElementEmitted ==
  /\ CanScan /\ scan.run = "none" /\ scan.mode = "tag"
  /\ Emit("ELEMENT_EMITTED", 0, 0, [scan EXCEPT !.mode = "content"])

ClosedElementEmitted ==
  /\ CanScan /\ scan.run = "none" /\ scan.mode = "tag"
  /\ Emit("CLOSED_ELEMENT_EMITTED", 0, 0, [scan EXCEPT !.mode = "content"])

\* ------------------------------------------------------------- the writes

\* The document arrives: parser 1 is written all of it, parser 2 its part
\* before the split.
Start ==
  /\ phase = "init"
  /\ Commit(TransformBegin(TransformBegin(Process, 1, doc), 2, SubSeq(doc, 1, split)))
  /\ phase' = "w1"
  /\ UNCHANGED <<doc, split, listener, scan, held, ret>>

\* native.parse returns to parser 2's first write: its input is exhausted or
\* the scanner has failed.
SplitEnd ==
  /\ phase = "w1"
  /\ scan.pos = split \/ scan.status = "error"
  /\ Commit(TransformEnd(Process, 2, scan.status, listener))
  /\ phase' = "gap"
  /\ UNCHANGED <<doc, split, listener, scan, held, ret>>

\* Parser 2 is written the rest of the document.
SplitBegin ==
  /\ phase = "gap"
  /\ Commit(TransformBegin(Process, 2, SubSeq(doc, split + 1, Len(doc))))
  /\ phase' = "w2"
  /\ UNCHANGED <<doc, split, listener, scan, held, ret>>

\* Parser 2's last write returns too, when it has one under way.
SecondEnd(g) ==
  IF g.io[2].active THEN TransformEnd(g, 2, scan.status, listener) ELSE g

\* native.parse returns to the write that holds the end of the document.
LastEnd ==
  /\ phase = "w2"
  /\ scan.pos = Len(doc) \/ scan.status = "error"
  /\ Commit(SecondEnd(TransformEnd(Process, 1, scan.status, listener)))
  /\ phase' = "ended"
  /\ UNCHANGED <<doc, split, listener, scan, held, ret>>

\* The streams end: _flush runs on both parsers.
StreamEnd ==
  /\ phase = "ended"
  /\ Commit(FlushStream(FlushStream(Process, 1), 2))
  /\ phase' = "flushed"
  /\ UNCHANGED <<doc, split, listener, scan, held, ret>>

\* ---------------------------------------------------------------- parseSync

\* parseSync(doc) on parser 1, parseSync of the part before the split on
\* parser 2.
SyncStart ==
  /\ phase = "init"
  /\ Commit(ParseSyncBegin(ParseSyncBegin(Process, 1, doc), 2, SubSeq(doc, 1, split)))
  /\ phase' = "w1"
  /\ UNCHANGED <<doc, split, listener, scan, held, ret>>

\* Parser 2's first parseSync call returns.
SyncSplitEnd ==
  /\ phase = "w1"
  /\ scan.pos = split \/ scan.status = "error"
  /\ Commit(ParseSyncEnd(Process, 2, scan.status))
  /\ phase' = "gap"
  /\ UNCHANGED <<doc, split, listener, scan, held, ret>>

\* parseSync of the rest of the document on parser 2.
SyncSplitBegin ==
  /\ phase = "gap"
  /\ Commit(ParseSyncBegin(Process, 2, SubSeq(doc, split + 1, Len(doc))))
  /\ phase' = "w2"
  /\ UNCHANGED <<doc, split, listener, scan, held, ret>>

\* Parser 2's second call returns too, when it has one under way.
SyncSecondEnd(g) ==
  IF g.io[2].active THEN ParseSyncEnd(g, 2, scan.status) ELSE g

\* The calls that hold the end of the document return.
SyncLastEnd ==
  /\ phase = "w2"
  /\ scan.pos = Len(doc) \/ scan.status = "error"
  /\ Commit(SyncSecondEnd(ParseSyncEnd(Process, 1, scan.status)))
  /\ phase' = "ended"
  /\ UNCHANGED <<doc, split, listener, scan, held, ret>>

\* ------------------------------------------------------ clients of the pool

\* What a client may leave in a chunk before it frees it.
FillBuffers == { <<>>, <<CommentToken>>, <<ElementOpen(1), StringValue(<<"a">>)>> }

\* The pool is replaced by h.
CommitPool(h) == chunks' = h.chunks /\ first' = h.first

\* The client takes the chunk allocate() returned.
Take(a) ==
  /\ CommitPool(a)
  /\ held' = held \cup {a.id}
  /\ ret' = [op |-> "allocate", chunk |-> a.id, head |-> first,
             created |-> Len(a.chunks) > Len(chunks),
             was |-> IF first # Nil THEN chunks[first] ELSE NewChunk]

\* A client calls TokenChunk.allocate().
PoolAllocate ==
  /\ Len(chunks) < MaxChunks \/ first # Nil
  /\ Take(Allocate([chunks |-> chunks, first |-> first], <<>>))
  /\ UNCHANGED <<doc, split, listener, phase, scan, parser, config, top, out, io>>

\* A client fills a chunk it holds: tokens, a length, a namespace list.
PoolFill(id, buffer, length, namespaceList) ==
  /\ id \in held
  /\ chunks' = [chunks EXCEPT ![id].buffer = buffer, ![id].length = length,
                              ![id].namespaceList = namespaceList]
  /\ ret' = [op |-> "fill", chunk |-> id, head |-> first, created |-> FALSE,
             was |-> chunks[id]]
  /\ UNCHANGED <<doc, split, listener, phase, scan, parser, config, first, top,
                 out, io, held>>

\* A client calls free() on a chunk it holds.
PoolFree(id) ==
  /\ id \in held
  /\ CommitPool(Free([chunks |-> chunks, first |-> first], id))
  /\ held' = held \ {id}
  /\ ret' = [op |-> "free", chunk |-> id, head |-> first, created |-> FALSE,
             was |-> chunks[id]]
  /\ UNCHANGED <<doc, split, listener, phase, scan, parser, config, top, out, io>>

\* ----------------------------------------------------------- specification

\* Documents of the markup specification: room for two unknown names.
TagDocs == { <<"a", "a">>, <<"a", "constructor">> }

\* Two parsers are constructed, each allocating its first chunk; the scanner
\* will write at most `budget` op-codes.
Construct(a1, a2) ==
  /\ chunks = a2.chunks
  /\ first = a2.first
  /\ parser = [p \in Parsers |-> ParserInit(IF p = 1 THEN a1.id ELSE a2.id)]

InitWith(docs, listeners, budget) ==
  /\ doc \in docs
  /\ split \in 0..Len(doc)
  /\ listener \in listeners
  /\ phase = "init"
  /\ scan = [ScanInit EXCEPT !.budget = budget]
  /\ Construct(Allocate([chunks |-> <<>>, first |-> Nil], <<>>),
               Allocate(Allocate([chunks |-> <<>>, first |-> Nil], <<>>), <<>>))
  /\ config = [p \in Parsers |-> ConfigInit]
  /\ top = 0
  /\ out = [p \in Parsers |-> <<>>]
  /\ io = [p \in Parsers |-> IoInit]
  /\ held = {}
  /\ ret = [op |-> "none", chunk |-> Nil, head |-> Nil, created |-> FALSE,
            was |-> NewChunk]

\* The feeding of the document to both parsers, common to the parsing
\* specifications.
Feed == Start \/ SplitEnd \/ SplitBegin \/ LastEnd \/ StreamEnd \/ ScanByte

\* Start tags: names the scanner knows and names it does not, prefixes,
\* xmlns definitions, attribute values.
Init == InitWith(TagDocs, {"returns"}, MaxCodes)

Next ==
  \/ Feed
  \/ ValueStart \/ ValueEnd
  \/ \E r \in {"uopen", "uattr", "uprefix", "uxmlns", "uuri"} : UnknownStart(r)
  \/ UnknownOpenElementEnd \/ UnknownAttributeEnd
  \/ UnknownPrefixEnd \/ UnknownXmlnsEnd \/ UnknownUriEnd
  \/ \E pfx \in 1..Len(config[1].prefixList) : PrefixId(pfx) \/ XmlnsId(pfx)
  \/ \E e \in 1..Len(ElementNames) : OpenElementId(e)
  \/ \E a \in 1..Len(AttributeNames) : AttributeId(a)
  \/ \E n \in 1..Len(config[1].namespaceList) : NamespaceId(n)
  \/ ElementEmitted \/ ClosedElementEmitted

Spec == Init /\ [][Next]_vars

\* Byte ranges across writes: text, comments, values and unknown names, in
\* and between start and end tags.
SliceDocs == SeqsUpTo(TextAlphabet, MaxTextLen) \cup { <<"e1", "e2">> }

InitSlice == InitWith(SliceDocs, {"returns"}, MaxSliceCodes)

NextSlice ==
  \/ Feed
  \/ TextStart \/ TextEnd \/ CommentStart \/ CommentEnd \/ ValueStart \/ ValueEnd
  \/ \E r \in {"uopen", "uclose", "uattr"} : UnknownStart(r)
  \/ UnknownOpenElementEnd \/ UnknownCloseElementEnd \/ UnknownAttributeEnd
  \/ \E e \in 1..Len(ElementNames) : OpenElementId(e) \/ CloseElementId(e)
  \/ \E a \in 1..Len(AttributeNames) : AttributeId(a)
  \/ ElementEmitted \/ ClosedElementEmitted

SpecSlice == InitSlice /\ [][NextSlice]_vars

\* Malformed input: the scanner fails in either write, under each listener.
InitError == InitWith(SeqsUpTo({"a"}, MaxDocLen), Listeners, MaxErrorCodes)

NextError ==
  \/ Feed \/ ScanError
  \/ TextStart \/ TextEnd
  \/ \E e \in 1..Len(ElementNames) : OpenElementId(e) \/ CloseElementId(e)
  \/ ElementEmitted \/ ClosedElementEmitted

SpecError == InitError /\ [][NextError]_vars

\* Names split between the writes: the part in the first write is the
\* beginning of a predeclared name, n.
PartialDocs ==
  UNION { { <<n, "a">>, <<"a", n, "a">> } : n \in {"x", "k", "p", "u1"} }

InitPartial == InitWith(PartialDocs, {"returns"}, MaxPartialCodes)

NextPartial ==
  \/ Feed
  \/ TextStart \/ TextEnd
  \/ \E r \in {"uopen", "uattr", "uprefix", "uuri"} :
       \/ UnknownStart(r)
       \/ \E id \in 1..Len(Predeclared(r)) : TrieStart(r, id)
  \/ PartialLen \/ PartialId \/ PartialStart
  \/ UnknownOpenElementEnd \/ UnknownAttributeEnd
  \/ UnknownPrefixEnd \/ UnknownUriEnd
  \/ \E pfx \in 1..Len(config[1].prefixList) : PrefixId(pfx) \/ XmlnsId(pfx)
  \/ \E e \in 1..Len(ElementNames) : OpenElementId(e)
  \/ ElementEmitted

SpecPartial == InitPartial /\ [][NextPartial]_vars

\* parseSync: one call on parser 1, two calls in a row on parser 2.
InitSync == InitWith(SeqsUpTo({"a"}, MaxDocLen), {"throws"}, MaxSyncCodes)

NextSync ==
  \/ SyncStart \/ SyncSplitEnd \/ SyncSplitBegin \/ SyncLastEnd \/ ScanByte
  \/ TextStart \/ TextEnd
  \/ \E e \in 1..Len(ElementNames) : OpenElementId(e) \/ CloseElementId(e)
  \/ ElementEmitted \/ ClosedElementEmitted

SpecSync == InitSync /\ [][NextSync]_vars

\* The pool alone: clients allocate, fill and free chunks.
InitPool == InitWith({<<>>}, {"returns"}, 0)

NextPool ==
  \/ PoolAllocate
  \/ \E id \in held : PoolFree(id)
  \/ \E id \in held, b \in FillBuffers, l \in {Nil, 1} : PoolFill(id, b, Len(b), l)

SpecPool == InitPool /\ [][NextPool]_vars

\* ------------------------------------------------------------------ claims

\* The buffer of the chunk parser p is filling.
Buffer(p) == chunks[parser[p].tokenChunk].buffer

\* ELEMENT_EMITTED or CLOSED_ELEMENT_EMITTED has just been decoded by parser
\* p: the finalized tag ends the buffer of its chunk.
Finalized(p) ==
  /\ scan.last \in {"ELEMENT_EMITTED", "CLOSED_ELEMENT_EMITTED"}
  /\ Len(Buffer(p)) = parser[p].tokenNum + 1
  /\ \E i \in 1..Len(Buffer(p)) : Buffer(p)[i].kind \in {"open", "function"}

\* Where that tag begins in the buffer: its element name is the last one.
TagOpen(p) ==
  CHOOSE i \in 1..Len(Buffer(p)) :
    /\ Buffer(p)[i].kind \in {"open", "function"}
    /\ \A j \in (i + 1)..Len(Buffer(p)) : Buffer(p)[j].kind \notin {"open", "function"}

\* Token i of the buffer is an element or attribute name of the finalized
\* tag, recorded with prefix pfx.
NameWithPrefix(p, i, pfx) ==
  /\ i \in TagOpen(p)..Len(Buffer(p))
  /\ Buffer(p)[i].kind \in {"open", "string"}
  /\ parser[p].prefixBuffer[i - TagOpen(p)] = pfx

\* C1: when a start tag that binds prefix P to namespace N is finalized, every
\* element or attribute name of the tag recorded with prefix P carries N,
\* whether its op-code came before or after the binding.
C1_BoundPrefixResolvesWholeTag ==
  \A p \in Parsers : Finalized(p) =>
    \A pfx \in scan.tagBound : \A i \in 1..Len(Buffer(p)) :
      NameWithPrefix(p, i, pfx) => Buffer(p)[i].ns = scan.bound[pfx]

\* A binding event (NAMESPACE_ID, UNKNOWN_URI_END_OFFSET) is decoded in this
\* step; scan.xmlns is the prefix it binds.
BindingStep ==
  /\ scan'.codes = scan.codes + 1
  /\ scan'.last \in {"NAMESPACE_ID", "UNKNOWN_URI_END_OFFSET"}

\* Slot i of parser p's buffer holds a name of the open start tag that was
\* recorded with prefix pfx.
OpenTagName(p, i, pfx) ==
  /\ parser[p].elementStart >= 0
  /\ i - 1 \in parser[p].elementStart..parser[p].tokenNum
  /\ IsMemberToken(Buffer(p)[i])
  /\ parser[p].prefixBuffer[i - 1 - parser[p].elementStart] = pfx

\* C10: a binding event for prefix P changes only names of the open start tag
\* that were recorded with prefix P; every other token of every chunk stays
\* as it was.
C10_BindingChangesOnlyOwnPrefix ==
  [][BindingStep =>
       \A c \in 1..Len(chunks) : \A i \in 1..Len(chunks[c].buffer) :
         \/ chunks'[c].buffer[i] = chunks[c].buffer[i]
         \/ \E p \in Parsers : /\ parser[p].tokenChunk = c
                               /\ OpenTagName(p, i, scan.xmlns)]_vars

\* A binding has just patched a name of the open tag, next to a name of the
\* same tag recorded with another prefix and to a value.
C10_Witness ==
  /\ scan.last \in {"NAMESPACE_ID", "UNKNOWN_URI_END_OFFSET"}
  /\ \E pfx \in scan.tagBound : \E i, j, k \in 1..Len(Buffer(1)) :
       /\ OpenTagName(1, i, pfx) /\ Buffer(1)[i].ns = scan.bound[pfx]
       /\ OpenTagName(1, j, Nil) /\ Buffer(1)[j].ns = Nil
       /\ Buffer(1)[k].kind = "text"
\* The token parser p wrote last, while its chunk still ends with it.
LastToken(p) == Buffer(p)[parser[p].tokenNum + 1]
JustDecoded ==
  \A p \in Parsers : parser[p].tokenNum >= 0 /\ Len(Buffer(p)) = parser[p].tokenNum + 1

\* The table the last unknown-name event used, and the other one.
OwnTable(p) ==
  IF scan.last = "UNKNOWN_OPEN_ELEMENT_END_OFFSET"
  THEN parser[p].unknownElementTbl ELSE parser[p].unknownAttributeTbl
OtherTable(p) ==
  IF scan.last = "UNKNOWN_OPEN_ELEMENT_END_OFFSET"
  THEN parser[p].unknownAttributeTbl ELSE parser[p].unknownElementTbl

\* C7: an unknown element (or attribute) name yields the name-ref interned
\* for it in the parser's element (or attribute) table, the same one as for
\* every earlier occurrence of the name; the two tables are separate, and the
\* other parser instance yields a distinct name-ref for the same name.
C7_UnknownNamesInternedPerParser ==
  (/\ scan.last \in {"UNKNOWN_OPEN_ELEMENT_END_OFFSET", "UNKNOWN_ATTRIBUTE_END_OFFSET"}
   /\ JustDecoded) =>
    /\ LastToken(1) # LastToken(2)
    /\ \A p \in Parsers :
         /\ LastToken(p) = TableGet(OwnTable(p), LastToken(p).name)
         /\ LastToken(p) # TableGet(OtherTable(p), LastToken(p).name)
         /\ \A i \in 1..Len(Buffer(p)) :
              (/\ Buffer(p)[i].obj # Nil
               /\ Buffer(p)[i].kind = LastToken(p).kind
               /\ Buffer(p)[i].name = LastToken(p).name) => Buffer(p)[i] = LastToken(p)

\* C9: an emitted chunk carries a namespace list exactly when a namespace was
\* bound while the chunk was being filled, and the list holds the namespaces
\* bound during that chunk.
C9_NamespaceListReflectsChunk ==
  \A p \in Parsers : \A k \in 1..Len(out[p]) :
    /\ out[p][k].hasNamespaceList <=> out[p][k].touched # {}
    /\ out[p][k].hasNamespaceList => out[p][k].namespaceList = out[p][k].touched
\* The tokens parser p's consumer received, chunk after chunk, compared by
\* value (each parser interns its own name objects).
Received(p) == Flatten([k \in 1..Len(out[p]) |-> PlainSeq(out[p][k].tokens)])

\* The input has ended, the scanner accepted it, and it does not end inside
\* a start tag.
DocumentFed ==
  /\ phase \in {"ended", "flushed"}
  /\ scan.status = "ok"
  /\ scan.mode \in {"content", "prefixed"}

\* C2: a document fed in two writes split at any byte offset yields, over the
\* emitted chunks in order, the token sequence of the same document fed in one
\* write; a byte range that starts in one write and ends in the next is
\* decoded from the saved part followed by the current write's slice.
C2_SplitWritesSameTokens == DocumentFed => Received(2) = Received(1)

\* A value of two bytes was cut between them, inside a start tag, and the
\* document went on to its end.
C2_Witness ==
  /\ DocumentFed /\ split = 1 /\ Len(doc) = 2 /\ doc[1] # doc[2]
  /\ Len(out[2]) = 1 /\ Len(out[1]) = 1
  /\ \E i \in 2..Len(out[2][1].tokens) :
       /\ out[2][1].tokens[i].kind = "text"
       /\ Len(out[2][1].tokens[i].name) = 2
       /\ out[2][1].tokens[i - 1].kind = "string"

\* Every start tag of the token sequence is followed by its terminal token.
RECURSIVE TagsTerminated(_, _)
TagsTerminated(tokens, open) ==
  IF tokens = <<>> THEN ~open
  ELSE IF Head(tokens).kind = "open" THEN ~open /\ TagsTerminated(Tail(tokens), TRUE)
  ELSE IF open /\ Head(tokens).kind \in {"emitted", "close"}
       THEN TagsTerminated(Tail(tokens), FALSE)
  ELSE TagsTerminated(Tail(tokens), open)

\* Parser p's write returns in this step, the scanner having accepted it.
WriteReturns(p) == io[p].active /\ ~io'[p].active /\ scan.status = "ok"

\* C3: when a write returns successfully the chunk is handed to the consumer
\* exactly if no start tag is open; otherwise null is passed and the parser
\* keeps its chunk for the next write.  So no emitted chunk holds a start tag
\* without its terminal token.
C3_ChunkWithheldWhileTagOpen ==
  /\ [](\A p \in Parsers : \A k \in 1..Len(out[p]) :
          TagsTerminated(out[p][k].tokens, FALSE))
  /\ [][\A p \in Parsers : WriteReturns(p) =>
          /\ io'[p].callbacks = io[p].callbacks + 1
          /\ IF parser'[p].elementStart < 0
             THEN /\ Len(out'[p]) = Len(out[p]) + 1
                  /\ out'[p][Len(out'[p])].chunk = parser[p].tokenChunk
                  /\ parser'[p].tokenChunk # parser[p].tokenChunk
             ELSE /\ out'[p] = out[p]
                  /\ parser'[p].tokenChunk = parser[p].tokenChunk]_vars

\* Parser 2's first write ended inside a start tag: nothing was handed over,
\* and the chunk went out whole after the second write.
C3_Witness ==
  /\ phase = "ended" /\ io[2].callbacks = 2 /\ Len(out[2]) = 1
  /\ parser[2].elementStart < 0
  /\ out[2][1].length >= 2
  /\ out[2][1].tokens[1].kind = "open"
\* The reference newline normalization: one pass from left to right that
\* writes LF for a CR or an LF and skips the LF right after such a CR and the
\* CR right after such an LF.
RECURSIVE RefNormalize(_, _, _)
RefNormalize(str, prev, acc) ==
  IF str = <<>> THEN acc
  ELSE IF (prev = CR /\ Head(str) = LF) \/ (prev = LF /\ Head(str) = CR)
       THEN RefNormalize(Tail(str), "", acc)
  ELSE IF Head(str) \in {CR, LF}
       THEN RefNormalize(Tail(str), Head(str), Append(acc, LF))
  ELSE RefNormalize(Tail(str), "", Append(acc, Head(str)))

\* The op-code just decoded ended a byte range.
RangeEnded ==
  /\ scan.last \in {"TEXT_END_OFFSET", "VALUE_END_OFFSET", "COMMENT_END_OFFSET",
                    "UNKNOWN_OPEN_ELEMENT_END_OFFSET", "UNKNOWN_CLOSE_ELEMENT_END_OFFSET",
                    "UNKNOWN_ATTRIBUTE_END_OFFSET"}
  /\ JustDecoded

\* C8: the string getSlice produces is the reference normalization of the
\* range's reassembled, decoded bytes (CR LF, lone CR and LF CR each become
\* one LF); it holds no CR, also when the range was cut between two writes.
C8_SliceNewlinesNormalized ==
  RangeEnded => \A p \in Parsers :
    /\ LastToken(p).name = RefNormalize(DecodeArray(RunBytes), "", <<>>)
    /\ \A i \in 1..Len(LastToken(p).name) : LastToken(p).name[i] # CR

\* A text CR LF was cut between the CR and the LF and came out as one LF.
C8_Witness ==
  /\ RangeEnded /\ scan.last = "TEXT_END_OFFSET"
  /\ split = 1 /\ phase = "w2" /\ RunBytes = <<CR, LF>>
  /\ LastToken(2).name = <<LF>>

\* C5: when the stream ends while a text or value run is open, the bytes of
\* the run seen so far reach the consumer, decoded, as the last token.
C5_FlushEmitsTrailingRun ==
  \A p \in Parsers :
    (/\ phase = "flushed"
     /\ scan.run \in {"text", "value"}
     /\ parser[p].partStart >= 0 /\ scan.pos > scan.runStart) =>
      /\ out[p] # <<>>
      /\ out[p][Len(out[p])].tokens # <<>>
      /\ out[p][Len(out[p])].tokens[Len(out[p][Len(out[p])].tokens)] =
           StringValue(RefNormalize(DecodeArray(RunBytes), "", <<>>))
\* C4: once the scanner has returned a non-OK status to a write of a parser,
\* no later write of that parser invokes the scanner, whatever listens to
\* the 'error' event.
C4_NoScanAfterError == \A p \in Parsers : io[p].lateCalls = 0

\* C6: the chunk allocate() returns has length zero, an empty buffer, no
\* namespace list and no free-list link, whatever it held when it was freed;
\* it is the head of the free list when there is one, and a new chunk only
\* when the list is empty.
C6_AllocateResetsChunk ==
  ret.op = "allocate" =>
    /\ chunks[ret.chunk] = [length |-> 0, buffer |-> <<>>, next |-> Nil,
                            namespaceList |-> Nil]
    /\ ret.head # Nil => ret.chunk = ret.head /\ ~ret.created /\ first = ret.was.next
    /\ ret.head = Nil => ret.created /\ ret.chunk = Len(chunks) /\ first = Nil

\* allocate() has returned a chunk that was freed holding tokens, a length
\* and a namespace list, behind it another free chunk.
C6_Witness ==
  /\ ret.op = "allocate" /\ ret.head # Nil
  /\ ret.was.length > 0 /\ ret.was.buffer # <<>> /\ ret.was.namespaceList # Nil
  /\ ret.was.next # Nil

\* C11: when a start tag is finalized, a name of the tag written with a prefix
\* that no event of the tag binds still has no namespace.
C11_UnboundPrefixKeepsSentinel ==
  \A p \in Parsers : Finalized(p) =>
    \A u \in scan.uses :
      u[2] \notin scan.tagBound => Buffer(p)[TagOpen(p) + u[1]].ns = Nil

\* An earlier event bound some prefix to namespace n.
BoundBefore(n) == \E i \in PrefixIds : scan.bound[i] = n

\* The default prefix of namespace n in parser p's registry; a namespace not
\* made yet has none.
DefaultPrefix(c, n) ==
  IF n \in 1..Len(c.namespaceList) THEN c.namespaceList[n].defaultPrefix ELSE <<>>

\* C12: the first event that binds a prefix to a namespace without a default
\* prefix makes that prefix's name the default prefix, and no later binding
\* changes the default prefix of a namespace, whatever the prefixes' names.
C12_FirstBindingWins ==
  [][\A p \in Parsers : \A n \in 1..Len(config'[p].namespaceList) :
       IF BindingStep /\ scan'.bound[scan.xmlns] = n /\ ~BoundBefore(n)
          /\ DefaultPrefix(config[p], n) = <<>>
       THEN DefaultPrefix(config'[p], n) = config'[p].prefixList[scan.xmlns]
       ELSE n \in 1..Len(config[p].namespaceList) =>
              DefaultPrefix(config'[p], n) = DefaultPrefix(config[p], n)]_vars

\* The tokens of the chunks parser p emitted during its j-th parseSync call,
\* in the order of emission.
RECURSIVE Collected(_, _)
Collected(emitted, j) ==
  IF emitted = <<>> THEN <<>>
  ELSE (IF Head(emitted).call = j THEN Head(emitted).tokens ELSE <<>>)
         \o Collected(Tail(emitted), j)

\* C13: every parseSync call returns a chunk holding, each once and in order,
\* the tokens of the chunks emitted while its input was written, with that
\* many tokens as its length; and each chunk it collected was freed once.
C13_ParseSyncCollectsChunks ==
  \A p \in Parsers :
    /\ \A j \in 1..Len(io[p].returned) :
         /\ io[p].returned[j].tokens = Collected(out[p], j)
         /\ io[p].returned[j].length = Len(io[p].returned[j].tokens)
    /\ \A k \in 1..Len(out[p]) : out[p][k].call > 0 => out[p][k].released = 1

\* The chunks on the free list, from chunk id on, following at most n links.
RECURSIVE FreeFrom(_, _)
FreeFrom(id, n) ==
  IF id = Nil \/ n = 0 THEN {} ELSE {id} \cup FreeFrom(chunks[id].next, n - 1)

\* Who owns chunk id: the pool when it is on the free list, a parser filling
\* it, the consumer of a stream that received it, the caller parseSync
\* returned it to.
Owners(id) ==
  {<<"pool", 0, 0>> : i \in FreeFrom(first, Len(chunks)) \cap {id}}
  \cup {<<"parser", p, 0>> : p \in {q \in Parsers : parser[q].tokenChunk = id}}
  \cup UNION {{<<"consumer", p, k>> :
                 k \in {j \in 1..Len(out[p]) :
                          out[p][j].chunk = id /\ out[p][j].call = 0}} : p \in Parsers}
  \cup UNION {{<<"caller", p, k>> :
                 k \in {j \in 1..Len(io[p].returned) : io[p].returned[j].chunk = id}} :
               p \in Parsers}

\* C20: every chunk has at most one owner at a time: a chunk allocate() has
\* returned is not on the free list, not the current chunk of another parser
\* and not held by a consumer or by another caller of allocate().
C20_ChunkHasOneOwner ==
  \A id \in 1..Len(chunks) : Cardinality(Owners(id)) <= 1

\* The prefix recorded for the name parser p decoded last.
LastPrefix(p) == parser[p].prefixBuffer[parser[p].tokenNum - parser[p].elementStart]

\* C14: the prefix recorded for an attribute decoded by id is the prefix read
\* last since the element opened, when there is one that no binding has
\* consumed, and the element's own recorded prefix (slot 0) otherwise.
C14_AttributePrefixOrElements ==
  (scan.last = "ATTRIBUTE_ID" /\ JustDecoded) =>
    \A p \in Parsers :
      LastPrefix(p) = IF scan.seen # Nil THEN scan.seen ELSE parser[p].prefixBuffer[0]

\* An attribute took the element's prefix, the prefix read inside the tag
\* having been consumed by a binding.
C14_Witness ==
  /\ scan.last = "ATTRIBUTE_ID" /\ JustDecoded
  /\ scan.seen = Nil /\ scan.tagBound # {}
  /\ LastPrefix(1) # Nil /\ LastPrefix(1) = parser[1].prefixBuffer[0]

\* C16: the terminal token that finalizes a start tag is the emitted (or
\* close) marker of the name-ref at the tag's first slot as it stands then,
\* after every patch and resolution of the tag.
C16_TerminalTokenOfPatchedElement ==
  \A p \in Parsers : Finalized(p) =>
    LastToken(p) = IF scan.last = "ELEMENT_EMITTED"
                   THEN EmittedOf(Buffer(p)[TagOpen(p)])
                   ELSE CloseOf(Buffer(p)[TagOpen(p)])

\* C18: every call of _transform calls its completion callback exactly once,
\* also the call the scanner fails in and a call after the error has latched:
\* once the writes have returned, each parser has had as many callbacks as
\* calls.
C18_EveryWriteCompletes ==
  \A p \in Parsers :
    phase = "ended" => io[p].callbacks = io[p].transforms

\* The chunk parser p is filling.
Current(p) == chunks[parser[p].tokenChunk]

\* Parser p is between two passes of parseCodeBuffer: no write of it is under
\* way, or the scanner has just handed over the code buffer.
PassEnded(p) ==
  \/ ~io[p].active
  \/ scan.last \in {"UNKNOWN_PREFIX_END_OFFSET", "UNKNOWN_XMLNS_END_OFFSET",
                     "UNKNOWN_URI_END_OFFSET"}

\* C19: after every pass the current chunk's length is the number of tokens
\* in its buffer, and elementStart is -1 or the index in that buffer of the
\* ElementOpen token of the open start tag; while a chunk is being filled
\* its tokens never get fewer, and elementStart is -1 when a new chunk is
\* installed.
C19_ChunkCursorConsistent ==
  /\ [](\A p \in Parsers : PassEnded(p) =>
          /\ Current(p).length = Len(Current(p).buffer)
          /\ \/ parser[p].elementStart = 0 - 1
             \/ /\ parser[p].elementStart \in 0..(Len(Current(p).buffer) - 1)
                /\ Current(p).buffer[parser[p].elementStart + 1].kind = "open")
  /\ [][\A p \in Parsers :
          IF parser'[p].tokenChunk = parser[p].tokenChunk
          THEN /\ Len(Current(p).buffer') >= Len(Current(p).buffer)
               /\ Current(p).length' >= Current(p).length
          ELSE parser'[p].elementStart = 0 - 1]_vars

\* The string of the byte range the scanner closed last, as the document has
\* it, and the byte total of the parts parser p has saved.
RangeString == Normalize(DecodeArray(RunBytes))
PartsLen(p) ==
  IF parser[p].partListNull THEN 0 ELSE Len(Flatten(parser[p].partList))

\* The string parser p decoded for the range closed last.
Decoded(p) ==
  CASE scan.last \in {"UNKNOWN_PREFIX_END_OFFSET", "UNKNOWN_XMLNS_END_OFFSET"} ->
         config[p].prefixList[parser[p].latestPrefix]
    [] scan.last = "UNKNOWN_URI_END_OFFSET" ->
         config[p].namespaceList[Len(config[p].namespaceList)].uri
    [] OTHER -> LastToken(p).name

\* C17: the string decoded for a token is the bytes between the token's own
\* start and end markers, a partial-name prefix saved for that token
\* included, and nothing saved earlier; partListTotalByteLen is the byte
\* total of the parts in partList, 0 when there is no list.
C17_PartsBelongToOneToken ==
  \A p \in Parsers :
    /\ parser[p].partListTotalByteLen = PartsLen(p)
    /\ (/\ io[p].active
        /\ \/ scan.last \in {"UNKNOWN_PREFIX_END_OFFSET", "UNKNOWN_XMLNS_END_OFFSET",
                             "UNKNOWN_URI_END_OFFSET"}
           \/ /\ scan.last \in {"TEXT_END_OFFSET", "VALUE_END_OFFSET",
                                "COMMENT_END_OFFSET", "UNKNOWN_OPEN_ELEMENT_END_OFFSET",
                                "UNKNOWN_CLOSE_ELEMENT_END_OFFSET",
                                "UNKNOWN_ATTRIBUTE_END_OFFSET"}
              \* the token is still in the parser's current chunk
              /\ parser[p].tokenNum >= 0)
       => /\ Decoded(p) = RangeString
          /\ parser[p].partListNull

\* A name whose first bytes came as a partial-*-id op-code has been decoded
\* by parser 2 from the second write.
C17_Witness ==
  /\ phase = "w2" /\ scan.runStart < split /\ parser[2].partialLen > 0
  /\ scan.last \in {"UNKNOWN_OPEN_ELEMENT_END_OFFSET", "UNKNOWN_ATTRIBUTE_END_OFFSET",
                    "UNKNOWN_PREFIX_END_OFFSET", "UNKNOWN_URI_END_OFFSET"}
  /\ Len(RunBytes) >= 2

\* The list a partial-*-id op-code is to read.
SpaceOf(kind) ==
  CASE kind = "PARTIAL_URI_ID" -> "uri"
    [] kind = "PARTIAL_PREFIX_ID" -> "prefix"
    [] kind = "PARTIAL_ATTRIBUTE_ID" -> "attribute"
    [] OTHER -> "element"

====
